---- MODULE Spec2Model ----
(***************************************************************************)
(* Model of cc_scripts/make_model.py: the model initializer                *)
(* (init_model_retrieval), the abundance preparer (prepare_abundances),    *)
(* the internal-parameter builder (create_internal_dict) and the model     *)
(* builder (prepare_model_high_or_low).                                    *)
(*                                                                         *)
(* Python values are records carrying a `tag`; None is [tag |-> "None"].   *)
(* A Python dict is [tag |-> "dict", d |-> function from keys to values].  *)
(* A raised exception ends the call with outcome = the exception's name.   *)
(***************************************************************************)
EXTENDS Integers, Sequences, FiniteSets, TLC

VARIABLES config_dict, globals, last, calls, built

vars == <<config_dict, globals, last, calls, built>>

(* ----------------------------- bounds ---------------------------------- *)
MaxCalls == 2
MaxLimP == 2
MaxPts == 4

(* --------------------------- python values ----------------------------- *)
None == [tag |-> "None"]

Dict(f) == [tag |-> "dict", d |-> f]

Range(s) == {s[i] : i \in 1..Len(s)}

Min(a, b) == IF a < b THEN a ELSE b

ResKinds == {"high", "low"}

(* ------------------------ external collaborators ----------------------- *)
InstrumResol == 70000

InstrumWvLo == 950

InstrumWvHi == 2500

load_instrum(name) ==
    [resol |-> InstrumResol,
     high_res_wv_lim |-> [tag |-> "range", lo |-> InstrumWvLo, hi |-> InstrumWvHi]]

(* prt.select_mol_list: the ordered keys of the line-list dict it returns *)
select_mol_list(mol_species, kind_res) ==
    [i \in 1..Len(mol_species) |-> mol_species[i] \o "_" \o kind_res]

(* prt.gen_atm_all: a fresh opacity-table handle *)
gen_atm_all(species, pressures, mode, lbl_opacity_sampling, wl_range, continuum_opacities, id) ==
    [tag |-> "atmo", id |-> id, n_layers |-> Len(pressures.v), mode |-> mode,
     wl_range |-> wl_range]

(* prt.retrieval_model_plain: the raw (wavelength, spectrum) pair *)
retrieval_model_plain(atmo_obj, species, int_dict, kwargs) ==
    [tag |-> "spectrum", stage |-> "raw", atmo |-> atmo_obj, species |-> species,
     fct_star |-> kwargs.fct_star]

(* prt.prepare_model: the downgraded and broadened pair *)
prepare_model(raw, lbl_res, Raf, rot_ker, rot_kwargs) ==
    [tag |-> "spectrum", stage |-> "downgraded", raw |-> raw, lbl_res |-> lbl_res,
     Raf |-> Raf, rot_ker |-> rot_ker, rot_kwargs |-> rot_kwargs]

(* --------------------------- pressure grid ----------------------------- *)
(* np.logspace(start, stop, num) = 10 ** np.linspace(start, stop, num).    *)
(* An element is the exponent num/den of 10, kept as an exact fraction:    *)
(* linspace uses step (stop - start) / (num - 1), and a single point is    *)
(* start.                                                                  *)
logspace_NoEndpoint(start, stop, num) ==
    LET div == IF num > 0 THEN num ELSE 1
    IN  [i \in 1..num |-> [num |-> start * div + (i - 1) * (stop - start), den |-> div]]

logspace(start, stop, num) ==
    LET div == IF num > 1 THEN num - 1 ELSE 1
    IN  [i \in 1..num |-> [num |-> start * div + (i - 1) * (stop - start), den |-> div]]

(* 10**a < 10**b and 10**a = 10**b on exact exponents *)
Pow10Less(a, b) == a.num * b.den < b.num * a.den

Pow10Eq(a, b) == a.num * b.den = b.num * a.den

Pow10(e) == [num |-> e, den |-> 1]

(* ------------------------- init_model_retrieval ------------------------ *)
RafLow == 1000

StarResolIn == 500000

InitFail(exc, msg, pressures, species_2_lnlst) ==
    [outcome |-> exc, message |-> msg, gen_calls |-> 0, gen_mode |-> "",
     gen_wl_range |-> None, Raf |-> 0, pressures |-> pressures,
     atmo |-> None, species_2_lnlst |-> species_2_lnlst, fct_star |-> None,
     star_built |-> FALSE]

HighBranch(config, wl_range) ==
    [mode |-> "lbl", Raf |-> load_instrum(config.instrument).resol, pix_per_elem |-> 2,
     wl_range |-> IF wl_range = None
                  THEN load_instrum(config.instrument).high_res_wv_lim
                  ELSE wl_range,
     outcome |-> "return"]

LowBranch(config, wl_range) ==
    [mode |-> "c-k", Raf |-> RafLow, pix_per_elem |-> 1,
     wl_range |-> IF wl_range = None
                  THEN IF "intrument" \in DOMAIN config
                       THEN config["intrument"]
                       ELSE None
                  ELSE wl_range,
     outcome |-> IF wl_range = None /\ "intrument" \notin DOMAIN config
                 THEN "KeyError" ELSE "return"]

SelectBranch_NoCheck(config, kind_res, wl_range) ==
    IF kind_res = "high" THEN HighBranch(config, wl_range)
    ELSE LowBranch(config, wl_range)

SelectBranch(config, kind_res, wl_range) ==
    IF kind_res = "high" THEN HighBranch(config, wl_range)
    ELSE IF kind_res = "low" THEN LowBranch(config, wl_range)
    ELSE [mode |-> "", Raf |-> 0, pix_per_elem |-> 0, wl_range |-> wl_range,
          outcome |-> "ValueError"]

StarFunction_NoStarCheck(config, wl_range, Raf, pix_per_elem) ==
    IF config.kind_trans = "emission"
    THEN [tag |-> "interp1d", lo10 |-> wl_range.lo * 10 - 1, hi10 |-> wl_range.hi * 10 + 1,
          R_in |-> StarResolIn, Raf |-> Raf, pix_per_elem |-> pix_per_elem]
    ELSE None

StarFunction(config, wl_range, Raf, pix_per_elem) ==
    IF config.kind_trans = "emission" /\ config.star_wv # None
    THEN [tag |-> "interp1d", lo10 |-> wl_range.lo * 10 - 1, hi10 |-> wl_range.hi * 10 + 1,
          R_in |-> StarResolIn, Raf |-> Raf, pix_per_elem |-> pix_per_elem]
    ELSE None

(* lines 76-79 *)
PressuresOf(config, pressures_arg) ==
    IF pressures_arg = None
    THEN [tag |-> "array", v |-> logspace(config.limP[1], config.limP[2], config.n_pts)]
    ELSE pressures_arg

(* line 82: zip(mol_species, species) as a dict *)
SpeciesToLinelist(mol_species, species) ==
    Dict([m \in Range(mol_species) |->
            species[CHOOSE i \in 1..Len(mol_species) : mol_species[i] = m]])

(* lines 84-116, once the defaults are resolved *)
InitFromBranch(config, kind_res, pressures, species, species_2_lnlst, br, id) ==
    IF br.outcome = "ValueError"
    THEN InitFail("ValueError", [value |-> kind_res, choices |-> <<"high", "low">>],
                  pressures, species_2_lnlst)
    ELSE IF br.outcome # "return"
    THEN InitFail(br.outcome, None, pressures, species_2_lnlst)
    ELSE [outcome |-> "return", message |-> None, gen_calls |-> 1,
          gen_mode |-> br.mode, gen_wl_range |-> br.wl_range, Raf |-> br.Raf,
          pressures |-> pressures,
          atmo |-> gen_atm_all(species, pressures, br.mode, config.opacity_sampling,
                               br.wl_range, config.continuum_opacities, id),
          species_2_lnlst |-> species_2_lnlst,
          fct_star |-> StarFunction(config, br.wl_range, br.Raf, br.pix_per_elem),
          star_built |-> StarFunction(config, br.wl_range, br.Raf, br.pix_per_elem) # None]

init_model_retrieval(config, kind_res, wl_range, pressures_arg, id) ==
    InitFromBranch(config, kind_res, PressuresOf(config, pressures_arg),
                   select_mol_list(config.line_opacities, kind_res),
                   SpeciesToLinelist(config.line_opacities,
                                     select_mol_list(config.line_opacities, kind_res)),
                   SelectBranch(config, kind_res, wl_range), id)

(* --------------------------- prepare_abundances ------------------------ *)
Str(s) == [tag |-> "str", s |-> s]

List(v) == [tag |-> "list", v |-> v]

(* 10 ** (-99.0), the placeholder abundance *)
ThetaPlaceholder == [num |-> -99, den |-> 1]

RefLinelists(config, mode, ref_linelists) ==
    LET lo == config.line_opacities
    IN  IF ref_linelists # None THEN [outcome |-> "return", v |-> ref_linelists.v]
        ELSE IF mode = None THEN [outcome |-> "return", v |-> lo]
        ELSE IF Len(lo) = 0 THEN [outcome |-> "return", v |-> <<>>]
        ELSE IF mode.s \notin DOMAIN config.linelist_names
        THEN [outcome |-> "KeyError", v |-> <<>>]
        ELSE IF config.linelist_names[mode.s] = None
        THEN [outcome |-> "TypeError", v |-> <<>>]
        ELSE IF \E i \in 1..Len(lo) : lo[i] \notin DOMAIN config.linelist_names[mode.s].d
        THEN [outcome |-> "KeyError", v |-> <<>>]
        ELSE [outcome |-> "return",
              v |-> [i \in 1..Len(lo) |-> config.linelist_names[mode.s].d[lo[i]]]]

ThetaKeys(config) ==
    IF config.chemical_equilibrium THEN Range(config.line_opacities) ELSE {}

(* lines 128-145, once ref_linelists is resolved *)
AbundancesFrom(config, ref, theta) ==
    IF ref.outcome # "return" THEN [outcome |-> ref.outcome, species |-> None]
    ELSE IF \E i \in 1..Min(Len(ref.v), Len(config.line_opacities)) :
                config.line_opacities[i] \notin theta
    THEN [outcome |-> "KeyError", species |-> None]
    ELSE IF \E mol \in Range(config.continuum_opacities) : mol \notin theta
    THEN [outcome |-> "KeyError", species |-> None]
    ELSE IF \E mol \in Range(config.other_species) : mol \notin theta
    THEN [outcome |-> "KeyError", species |-> None]
    ELSE [outcome |-> "return",
          species |-> Dict([k \in {ref.v[i] : i \in 1..Min(Len(ref.v), Len(config.line_opacities))}
                                    \cup Range(config.continuum_opacities)
                                    \cup Range(config.other_species) |-> ThetaPlaceholder])]

prepare_abundances(config, mode, ref_linelists) ==
    AbundancesFrom(config, RefLinelists(config, mode, ref_linelists), ThetaKeys(config))

(* -------------------------- create_internal_dict ----------------------- *)
Planet == [R_pl |-> 2, M_pl |-> 3, R_star |-> 5]

create_internal_dict(config, planet) ==
    LET pressures == logspace(config.limP[1], config.limP[2], config.n_pts)
    IN  [pressures |-> [tag |-> "array", v |-> pressures],
         temperatures |-> [tag |-> "array", v |-> [i \in 1..Len(pressures) |-> config.T_eq]],
         P0 |-> config.P0,
         p_cloud |-> config.p_cloud,
         R_pl |-> planet.R_pl,
         R_star |-> planet.R_star,
         gravity |-> [num |-> planet.M_pl, den |-> planet.R_pl * planet.R_pl]]

(* ------------------------ prepare_model_high_or_low -------------------- *)
LblRes == 1000000

Num(n) == [tag |-> "num", v |-> n]

CachedAtmo(config, mode) ==
    IF mode = "high" THEN config.atmo_high ELSE config.atmo_low

NeedsInit_IgnoreArg(config, atmo_obj) ==
    CachedAtmo(config, config.mode) = None

NeedsInit(config, atmo_obj) ==
    atmo_obj = None /\ CachedAtmo(config, config.mode) = None

MergeLinelistNames_Overwrite(old, lnlst_names) ==
    IF old = None THEN lnlst_names
    ELSE Dict([m \in DOMAIN lnlst_names.d \cup DOMAIN old.d |->
                 IF m \in DOMAIN lnlst_names.d THEN lnlst_names.d[m] ELSE old.d[m]])

(* {**lnlst_names, **config_dict['linelist_names'][mode]} *)
MergeLinelistNames(old, lnlst_names) ==
    IF old = None THEN lnlst_names
    ELSE Dict([m \in DOMAIN lnlst_names.d \cup DOMAIN old.d |->
                 IF m \in DOMAIN old.d THEN old.d[m] ELSE lnlst_names.d[m]])

StoreStar_AllModes(fct_star_global, mode, fct_star) ==
    [k \in DOMAIN fct_star_global \cup {mode} |-> fct_star]

StoreStar(fct_star_global, mode, fct_star) ==
    [k \in DOMAIN fct_star_global \cup {mode} |->
        IF k = mode THEN fct_star ELSE fct_star_global[k]]

StoreGlobal(glob, mode, atmo_obj) ==
    IF mode = "high" THEN [glob EXCEPT !.atmo_high = atmo_obj]
    ELSE [glob EXCEPT !.atmo_low = atmo_obj]

(* lines 181-194: what the call keeps of the initializer's output *)
LazyStore(config, glob, mode, output) ==
    IF output.outcome # "return"
    THEN [outcome |-> output.outcome, config |-> config, globals |-> glob,
          atmo_obj |-> None, output |-> output]
    ELSE [outcome |-> "return",
          config |-> [config EXCEPT
                        !.fct_star_global = StoreStar(@, mode, output.fct_star),
                        !.linelist_names =
                            [@ EXCEPT ![mode] = MergeLinelistNames(@, output.species_2_lnlst)]],
          globals |-> StoreGlobal(glob, mode, output.atmo),
          atmo_obj |-> output.atmo, output |-> output]

(* lines 178-194: the initialization done when no handle is at hand *)
LazyInit(config, glob, id) ==
    LazyStore(config, glob, config.mode,
              init_model_retrieval(config, config.mode, None, None, id))

(* lines 173-177 when a handle is given or cached *)
NoLazyInit(config, glob, atmo_arg) ==
    [outcome |-> "return", config |-> config, globals |-> glob,
     atmo_obj |-> IF atmo_arg = None THEN CachedAtmo(config, config.mode) ELSE atmo_arg,
     output |-> None]

RotKwargs(config) ==
    IF config.wind # None
    THEN [rot_params |-> List(<<config.R_pl, config.M_pl, config.T_eq, List(<<config.wind.v>>)>>),
          gauss |-> TRUE, x0 |-> 0, fwhm |-> config.wind.v * 1000]
    ELSE [rot_params |-> None]

Downgrade_AllModes(config, mode, raw, Raf, rot_ker) ==
    [prep_calls |-> 1, lbl_res |-> LblRes, rot_kwargs |-> RotKwargs(config),
     out |-> prepare_model(raw, LblRes, Raf, rot_ker, RotKwargs(config))]

(* lines 215-234: downgrade and broaden in high mode only *)
Downgrade(config, mode, raw, Raf, rot_ker) ==
    IF mode = "high"
    THEN [prep_calls |-> 1, lbl_res |-> LblRes, rot_kwargs |-> RotKwargs(config),
          out |-> prepare_model(raw, LblRes, Raf, rot_ker, RotKwargs(config))]
    ELSE [prep_calls |-> 0, lbl_res |-> 0, rot_kwargs |-> None, out |-> raw]

BuilderResult(args, outcome, li, lazy, synth, dg, ret) ==
    [op |-> "prepare_model_high_or_low", args |-> args, outcome |-> outcome,
     init_calls |-> IF lazy THEN 1 ELSE 0,
     gen_calls |-> IF lazy THEN li.output.gen_calls ELSE 0,
     init_output |-> li.output,
     synth_calls |-> synth.calls, synth_atmo |-> synth.atmo,
     synth_fct_star |-> synth.fct_star, synth_names |-> synth.names,
     synth_raw |-> synth.raw,
     prep_calls |-> dg.prep_calls, prep_lbl_res |-> dg.lbl_res,
     prep_rot_kwargs |-> dg.rot_kwargs, ret |-> ret]

NoSynth == [calls |-> 0, atmo |-> None, fct_star |-> None, names |-> None, raw |-> None]

NoDowngrade == [prep_calls |-> 0, lbl_res |-> 0, rot_kwargs |-> None, out |-> None]

BuilderEffect(li, result) ==
    [config |-> li.config, globals |-> li.globals, result |-> result]

BuilderFail(args, exc, li, lazy) ==
    BuilderEffect(li, BuilderResult(args, exc, li, lazy, NoSynth, NoDowngrade, None))

(* lines 204-212 *)
SynthKwargs(cfg, mode, fct_star_arg) ==
    [gamma_scat |-> cfg.gamma_scat, kappa_factor |-> cfg.scat_factor,
     C_to_O |-> cfg.C_O, Fe_to_H |-> cfg.Fe_H,
     specie_2_lnlst |-> cfg.linelist_names[mode],
     kind_trans |-> cfg.kind_trans, dissociation |-> cfg.dissociation,
     fct_star |-> IF fct_star_arg = None THEN cfg.fct_star_global[mode] ELSE fct_star_arg]

(* lines 213-236 *)
BuilderFinish(args, li, lazy, Raf, kwargs, raw) ==
    BuilderEffect(li,
        BuilderResult(args, "return", li, lazy,
                      [calls |-> 1, atmo |-> li.atmo_obj, fct_star |-> kwargs.fct_star,
                       names |-> kwargs.specie_2_lnlst, raw |-> raw],
                      Downgrade(li.config, args.mode, raw, Raf, args.rot_ker),
                      Downgrade(li.config, args.mode, raw, Raf, args.rot_ker).out))

BuilderSynth(args, li, lazy, Raf, int_dict, species, kwargs) ==
    BuilderFinish(args, li, lazy, Raf, kwargs,
                  retrieval_model_plain(li.atmo_obj, species, int_dict, kwargs))

(* lines 196-236, after the handle is settled *)
BuilderFrom(args, li, lazy, Raf, int_dict, ab) ==
    IF li.outcome # "return" THEN BuilderFail(args, li.outcome, li, lazy)
    ELSE IF args.fct_star = None /\ args.mode \notin DOMAIN li.config.fct_star_global
    THEN BuilderFail(args, "KeyError", li, lazy)
    ELSE IF ab.outcome # "return" THEN BuilderFail(args, ab.outcome, li, lazy)
    ELSE IF args.mode \notin DOMAIN li.config.linelist_names
    THEN BuilderFail(args, "KeyError", li, lazy)
    ELSE BuilderSynth(args, li, lazy, Raf, int_dict, ab.species,
                      SynthKwargs(li.config, args.mode, args.fct_star))

BuilderAbundances(args, li, lazy, Raf, int_dict) ==
    BuilderFrom(args, li, lazy, Raf, int_dict,
                IF li.outcome = "return"
                THEN prepare_abundances(li.config, Str(args.mode), args.species_dict)
                ELSE None)

(* the call's effect: the configuration and globals it leaves, and what it did *)
prepare_model_high_or_low(config, glob, int_dict, planet, atmo_arg, fct_star_arg, species_dict, Raf_arg, rot_ker, id) ==
    BuilderAbundances(
        [mode |-> config.mode, atmo_obj |-> atmo_arg, fct_star |-> fct_star_arg,
         species_dict |-> species_dict, Raf |-> Raf_arg, rot_ker |-> rot_ker],
        IF NeedsInit(config, atmo_arg) THEN LazyInit(config, glob, id)
        ELSE NoLazyInit(config, glob, atmo_arg),
        NeedsInit(config, atmo_arg),
        IF Raf_arg = None THEN Num(load_instrum(config.instrument).resol) ELSE Raf_arg,
        int_dict)

(* ------------------------------ configurations ------------------------- *)
Array == [tag |-> "array"]

CallerAtmo == [tag |-> "atmo", id |-> 0, origin |-> "argument"]

PresetAtmo == [tag |-> "atmo", id |-> 0, origin |-> "config"]

CallerStar == [tag |-> "interp1d", origin |-> "argument"]

PresetNames == Dict([m \in {"H2O"} |-> "H2O_custom"])

WlOverride == [tag |-> "range", lo |-> 1000, hi |-> 2000]

CallerPressures == [tag |-> "array", v |-> <<Pow10(-1), Pow10(0)>>]

CallerRefs == {List(<<"H2O_x">>), List(<<"H2O_x", "CO_x">>)}

BaseConfig ==
    [mode |-> "high", instrument |-> "SPIRou",
     line_opacities |-> <<"H2O">>, continuum_opacities |-> <<>>, other_species |-> <<>>,
     opacity_sampling |-> 4, chemical_equilibrium |-> TRUE,
     kind_trans |-> "emission", star_wv |-> None, star_flux |-> None,
     wind |-> None, limP |-> <<-2, 1>>, n_pts |-> 4,
     T_eq |-> 1500, P0 |-> Pow10(-2), p_cloud |-> Pow10(1), R_pl |-> 2, M_pl |-> 3,
     atmo_high |-> None, atmo_low |-> None,
     fct_star_global |-> [k \in ResKinds |-> None],
     linelist_names |-> [k \in ResKinds |-> None],
     gamma_scat |-> -2, scat_factor |-> 0, C_O |-> 1, Fe_H |-> 0, dissociation |-> FALSE]

Modes == {"high", "low", "mid"}

(* chemical_equilibrium, line_opacities, continuum_opacities *)
SpeciesSetups ==
    { <<TRUE, <<"H2O", "CO">>, <<>>>>, <<TRUE, <<"H2O">>, <<"H-">>>>, <<FALSE, <<"H2O">>, <<>>>> }

(* kind_trans, star_wv *)
StarSetups ==
    { <<"emission", Array>>, <<"emission", None>>, <<"transmission", Array>> }

Configs ==
    { [BaseConfig EXCEPT !.mode = m, !.kind_trans = st[1], !.star_wv = st[2],
                         !.star_flux = st[2], !.wind = w,
                         !.chemical_equilibrium = sp[1],
                         !.line_opacities = sp[2], !.continuum_opacities = sp[3],
                         !.atmo_high = ah, !.atmo_low = ah,
                         !.linelist_names = [k \in ResKinds |-> nm]] :
        m \in Modes, st \in StarSetups, w \in {None, Num(5)}, sp \in SpeciesSetups,
        ah \in {None, PresetAtmo}, nm \in {None, PresetNames} }

GridConfigs ==
    { [BaseConfig EXCEPT !.limP = <<a, b>>, !.n_pts = n] :
        a \in -MaxLimP..MaxLimP, b \in -MaxLimP..MaxLimP, n \in 0..MaxPts }

AbundConfigs ==
    { [BaseConfig EXCEPT !.chemical_equilibrium = ce, !.line_opacities = lo,
                         !.continuum_opacities = co, !.other_species = os,
                         !.linelist_names = [k \in ResKinds |-> IF k = "high" THEN nh ELSE None]] :
        ce \in BOOLEAN, lo \in {<<>>, <<"H2O">>, <<"CO">>, <<"H2O", "CO">>},
        co \in {<<>>, <<"H-">>, <<"H2O">>}, os \in {<<>>, <<"e-">>, <<"CO">>},
        nh \in {None, PresetNames, Dict([m \in {"H2O", "CO"} |-> m \o "_main_iso"])} }

(* -------------------------------- actions ------------------------------ *)
NoCall == [op |-> "none", outcome |-> "none"]

InitWith(S) ==
    /\ config_dict \in S
    /\ globals = [atmo_high |-> None, atmo_low |-> None]
    /\ last = NoCall
    /\ calls = 0
    /\ built = 0

Init == InitWith(Configs)

InitGrid == InitWith(GridConfigs)

InitAbund == InitWith(AbundConfigs)

Record(op, args, r) == [op |-> op, args |-> args, outcome |-> r.outcome, out |-> r]

ReturnInit(kind_res, wl_range, pressures, r) ==
    /\ last' = Record("init_model_retrieval",
                      [kind_res |-> kind_res, wl_range |-> wl_range, pressures |-> pressures], r)
    /\ built' = built + r.gen_calls

ReturnBuilder(e) ==
    /\ config_dict' = e.config
    /\ globals' = e.globals
    /\ last' = e.result
    /\ built' = built + e.result.gen_calls

CallInitModelRetrieval ==
    /\ calls < MaxCalls
    /\ \E kind_res \in Modes, wl_range \in {None, WlOverride},
           pressures \in {None, CallerPressures} :
          ReturnInit(kind_res, wl_range, pressures,
                     init_model_retrieval(config_dict, kind_res, wl_range, pressures, built + 1))
    /\ calls' = calls + 1
    /\ UNCHANGED <<config_dict, globals>>

CallPrepareAbundances ==
    /\ calls < MaxCalls
    /\ \E mode \in {None, Str("high"), Str("low")}, ref_linelists \in {None} \cup CallerRefs :
          last' = Record("prepare_abundances",
                         [mode |-> mode, ref_linelists |-> ref_linelists],
                         prepare_abundances(config_dict, mode, ref_linelists))
    /\ calls' = calls + 1
    /\ UNCHANGED <<config_dict, globals, built>>

CallCreateInternalDict ==
    /\ calls < MaxCalls
    /\ last' = [op |-> "create_internal_dict", args |-> [planet |-> Planet],
                outcome |-> "return", out |-> create_internal_dict(config_dict, Planet)]
    /\ calls' = calls + 1
    /\ UNCHANGED <<config_dict, globals, built>>

CallPrepareModelHighOrLow ==
    /\ calls < MaxCalls
    /\ \E atmo_obj \in {None, CallerAtmo}, fct_star \in {None, CallerStar},
           species_dict \in {None, List(<<"H2O_x", "CO_x">>)}, Raf \in {None, Num(50000)} :
          ReturnBuilder(prepare_model_high_or_low(config_dict, globals,
                            create_internal_dict(config_dict, Planet), Planet,
                            atmo_obj, fct_star, species_dict, Raf, None, built + 1))
    /\ calls' = calls + 1

Next ==
    \/ CallInitModelRetrieval
    \/ CallPrepareAbundances
    \/ CallCreateInternalDict
    \/ CallPrepareModelHighOrLow

NextGrid ==
    \/ CallInitModelRetrieval
    \/ CallCreateInternalDict

NextAbund == CallPrepareAbundances

Spec == Init /\ [][Next]_vars

SpecGrid == InitGrid /\ [][NextGrid]_vars

SpecAbund == InitAbund /\ [][NextAbund]_vars

(* ================================ claims =============================== *)
IsBuilder(r) == r.op = "prepare_model_high_or_low"

IsInit(r) == r.op = "init_model_retrieval"

(* C1: two builder calls in a row with no atmo_obj argument, the first of  *)
(* which constructed the handle, construct it only once: the second call   *)
(* does not invoke init_model_retrieval nor the opacity-table constructor  *)
(* and passes the first call's handle to the synthesis routine.            *)
C1_HandleConstructedOnce ==
    [][ ( /\ IsBuilder(last) /\ last.args.atmo_obj = None
          /\ last.init_calls = 1 /\ last.gen_calls = 1
          /\ IsBuilder(last') /\ last'.args.atmo_obj = None
          /\ last'.args.mode = last.args.mode )
        => ( /\ last'.init_calls = 0
             /\ last'.gen_calls = 0
             /\ built' = built ) ]_vars

(* C2: prepare_abundances completes for every configuration and its key    *)
(* set is the union of the renamed line-opacity names, the continuum list  *)
(* and the other-species list; for disjoint groups the number of keys is   *)
(* the sum of the three list lengths.                                      *)
C2_Groups(r) ==
    LET ref == RefLinelists(config_dict, r.args.mode, r.args.ref_linelists)
    IN  [renamed |-> ref.v, continuum |-> config_dict.continuum_opacities,
         other |-> config_dict.other_species, resolved |-> ref.outcome = "return"]

C2_Disjoint(g) ==
    /\ Cardinality(Range(g.renamed)) = Len(g.renamed)
    /\ Range(g.renamed) \cap Range(g.continuum) = {}
    /\ Range(g.renamed) \cap Range(g.other) = {}
    /\ Range(g.continuum) \cap Range(g.other) = {}

C2_AbundanceKeysAreUnion ==
    ( /\ last.op = "prepare_abundances"
      /\ C2_Groups(last).resolved
      /\ Len(C2_Groups(last).renamed) = Len(config_dict.line_opacities) )
    => LET g == C2_Groups(last)
       IN  /\ last.outcome = "return"
           /\ DOMAIN last.out.species.d
                  = Range(g.renamed) \cup Range(g.continuum) \cup Range(g.other)
           /\ C2_Disjoint(g)
                  => Cardinality(DOMAIN last.out.species.d)
                        = Len(g.renamed) + Len(g.continuum) + Len(g.other)

(* C3: init_model_retrieval with kind_res 'high' completes with mode 'lbl', *)
(* the instrument's resolving power and, without a wl_range override, the  *)
(* instrument's limits; with kind_res 'low' it completes with mode 'c-k',  *)
(* resolving power 1000 and a wavelength range; these are the mode and     *)
(* range given to the opacity-table constructor.                           *)
C3_KindSelectsMode ==
    IsInit(last) =>
        /\ last.args.kind_res = "high" =>
              /\ last.outcome = "return"
              /\ last.out.gen_mode = "lbl"
              /\ last.out.Raf = load_instrum(config_dict.instrument).resol
              /\ last.args.wl_range = None =>
                    last.out.gen_wl_range = load_instrum(config_dict.instrument).high_res_wv_lim
              /\ last.args.wl_range # None => last.out.gen_wl_range = last.args.wl_range
              /\ last.out.atmo.mode = "lbl"
              /\ last.out.atmo.wl_range = last.out.gen_wl_range
        /\ last.args.kind_res = "low" =>
              /\ last.outcome = "return"
              /\ last.out.gen_mode = "c-k"
              /\ last.out.Raf = RafLow
              /\ last.out.gen_wl_range # None
              /\ last.args.wl_range # None => last.out.gen_wl_range = last.args.wl_range
              /\ last.out.atmo.mode = "c-k"
              /\ last.out.atmo.wl_range = last.out.gen_wl_range

(* C4: init_model_retrieval with a kind_res other than 'high' or 'low'     *)
(* raises ValueError naming the value and the two choices, before the      *)
(* opacity-table constructor and the stellar function, and leaves          *)
(* config_dict unchanged; no other path raises ValueError.                 *)
C4_InvalidKind(r) ==
    \/ IsInit(r) /\ r.args.kind_res \notin ResKinds
    \/ IsBuilder(r) /\ r.args.mode \notin ResKinds /\ r.init_calls = 1

C4_Output(r) == IF IsInit(r) THEN r.out ELSE r.init_output

C4_InvalidKindRaisesValueError ==
    /\ [](C4_InvalidKind(last) =>
             /\ last.outcome = "ValueError"
             /\ C4_Output(last).message = [value |-> IF IsInit(last) THEN last.args.kind_res
                                                      ELSE last.args.mode,
                                           choices |-> <<"high", "low">>]
             /\ C4_Output(last).gen_calls = 0
             /\ C4_Output(last).atmo = None
             /\ ~C4_Output(last).star_built)
    /\ [](last.outcome = "ValueError" => C4_InvalidKind(last))
    /\ [][C4_InvalidKind(last') => config_dict' = config_dict /\ built' = built]_vars

C4_Witness ==
    /\ IsInit(last)
    /\ last.args.kind_res = "mid"
    /\ last.args.wl_range # None
    /\ last.outcome = "ValueError"

(* C5: the lazy initialization merges the discovered line-list names into  *)
(* linelist_names[mode] without overwriting: old entries keep their name,  *)
(* new molecules gain the discovered name, an absent table becomes the     *)
(* discovered mapping.                                                     *)
C5_LazyInitDone(r) ==
    IsBuilder(r) /\ r.init_calls = 1 /\ r.init_output.outcome = "return"

C5_MergeKeepsExistingNames ==
    [][ C5_LazyInitDone(last') =>
          LET m == last'.args.mode
              old == config_dict.linelist_names[m]
              new == config_dict'.linelist_names[m]
              disc == last'.init_output.species_2_lnlst
          IN  /\ old = None => new = disc
              /\ old # None =>
                    /\ new.tag = "dict"
                    /\ DOMAIN new.d = DOMAIN old.d \cup DOMAIN disc.d
                    /\ \A mol \in DOMAIN old.d : new.d[mol] = old.d[mol]
                    /\ \A mol \in DOMAIN disc.d \ DOMAIN old.d : new.d[mol] = disc.d[mol] ]_vars

C5_Witness ==
    /\ C5_LazyInitDone(last)
    /\ {"H2O", "CO"} \subseteq DOMAIN config_dict.linelist_names[last.args.mode].d
    /\ config_dict.linelist_names[last.args.mode].d["H2O"] = "H2O_custom"
    /\ last.init_output.species_2_lnlst.d["H2O"] # "H2O_custom"
    /\ config_dict.linelist_names[last.args.mode].d["CO"]
          = last.init_output.species_2_lnlst.d["CO"]

(* C6: the initializer produces a stellar function iff kind_trans is       *)
(* 'emission' and a stellar spectrum is configured; with no stellar        *)
(* spectrum a builder call given no fct_star passes fct_star = None to the *)
(* synthesis routine.                                                      *)
C6_StarExpected == config_dict.kind_trans = "emission" /\ config_dict.star_wv # None

C6_StellarFunctionIffEmissionWithStar ==
    /\ (IsInit(last) /\ last.outcome = "return")
          => (last.out.fct_star # None <=> C6_StarExpected)
    /\ C5_LazyInitDone(last)
          => (last.init_output.fct_star # None <=> C6_StarExpected)
    /\ ( /\ IsBuilder(last) /\ last.synth_calls = 1 /\ last.args.fct_star = None
          /\ config_dict.star_wv = None )
          => /\ last.synth_fct_star = None
             /\ last.synth_raw.fct_star = None

C6_Witness ==
    /\ C5_LazyInitDone(last)
    /\ last.synth_calls = 1
    /\ last.args.fct_star = None
    /\ config_dict.kind_trans = "emission"
    /\ config_dict.star_wv = None
    /\ last.init_output.fct_star = None

(* C7: the pressure grid derived from the configuration is strictly        *)
(* increasing, has n_pts points and has endpoints 10**limP[0] and          *)
(* 10**limP[1], for every configured limP and n_pts.                       *)
C7_GridDerived ==
    \/ last.op = "create_internal_dict"
    \/ IsInit(last) /\ last.args.pressures = None

C7_GridOK(g) ==
    /\ Len(g) = config_dict.n_pts
    /\ \A i, j \in 1..Len(g) : i < j => Pow10Less(g[i], g[j])
    /\ Len(g) >= 1
    /\ Pow10Eq(g[1], Pow10(config_dict.limP[1]))
    /\ Pow10Eq(g[Len(g)], Pow10(config_dict.limP[2]))

C7_GridForEveryConfiguration ==
    C7_GridDerived => C7_GridOK(last.out.pressures.v)

(* C7 as amended: the same, for limP[0] < limP[1] and n_pts >= 2.          *)
C7_GridForAscendingLimits ==
    ( /\ C7_GridDerived
      /\ config_dict.limP[1] < config_dict.limP[2]
      /\ config_dict.n_pts >= 2 )
    => C7_GridOK(last.out.pressures.v)

C7_Witness ==
    /\ IsInit(last)
    /\ last.args.pressures = None
    /\ last.out.gen_calls = 1
    /\ last.out.atmo.n_layers = config_dict.n_pts
    /\ config_dict.n_pts >= 3
    /\ config_dict.limP[1] < config_dict.limP[2]

(* C8: a builder call that returns called the synthesis routine exactly    *)
(* once (no call makes more than one); prt.prepare_model is applied iff    *)
(* mode is 'high', once, after synthesis, with resolution 1000000 and with *)
(* rot_params present exactly when wind is configured; otherwise the raw   *)
(* synthesis output is returned as is.                                     *)
C8_DowngradeOnlyInHighMode ==
    IsBuilder(last) =>
        /\ last.synth_calls <= 1
        /\ last.prep_calls <= last.synth_calls
        /\ last.outcome = "return" =>
              /\ last.synth_calls = 1
              /\ last.prep_calls = 1 <=> last.args.mode = "high"
        /\ last.prep_calls = 1 =>
              /\ last.prep_lbl_res = 1000000
              /\ last.prep_rot_kwargs.rot_params # None <=> config_dict.wind # None
              /\ last.ret.stage = "downgraded"
              /\ last.ret.raw = last.synth_raw
              /\ last.ret.lbl_res = 1000000
        /\ (last.outcome = "return" /\ last.args.mode # "high") =>
              /\ last.ret = last.synth_raw
              /\ last.ret.stage = "raw"

C8_Witness ==
    /\ IsBuilder(last)
    /\ last.outcome = "return"
    /\ last.args.mode = "high"
    /\ config_dict.wind # None
    /\ last.prep_calls = 1

(* C9: a builder call given an atmo_obj never invokes init_model_retrieval *)
(* and leaves config_dict unchanged; the given handle is the one passed to *)
(* the synthesis routine, and a given fct_star is passed on in place of    *)
(* fct_star_global[mode].                                                  *)
C9_SuppliedHandleIsUsed ==
    /\ [][ (IsBuilder(last') /\ last'.args.atmo_obj # None) =>
              /\ last'.init_calls = 0
              /\ last'.gen_calls = 0
              /\ built' = built
              /\ config_dict' = config_dict
              /\ last'.synth_calls = 1 => last'.synth_atmo = last'.args.atmo_obj ]_vars
    /\ []( (IsBuilder(last) /\ last.synth_calls = 1 /\ last.args.fct_star # None)
              => last.synth_fct_star = last.args.fct_star )

C9_Witness ==
    /\ IsBuilder(last)
    /\ last.args.atmo_obj # None
    /\ last.args.fct_star # None
    /\ last.synth_calls = 1
    /\ config_dict.fct_star_global[last.args.mode] # None
    /\ CachedAtmo(config_dict, last.args.mode) = None

(* C10: a lazy initialization for mode m writes fct_star_global[m] (the    *)
(* initializer's stellar function) and linelist_names[m] (the merged       *)
(* table) and nothing else of the configuration; if the initializer raises *)
(* the configuration is not modified.                                      *)
C10_WrittenKeys == {"fct_star_global", "linelist_names"}

C10_LazyInitWritesOnlyItsMode ==
    [][ (IsBuilder(last') /\ last'.init_calls = 1) =>
          LET m == last'.args.mode
              out == last'.init_output
          IN  /\ out.outcome # "return" => config_dict' = config_dict
              /\ out.outcome = "return" =>
                    /\ DOMAIN config_dict' = DOMAIN config_dict
                    /\ \A k \in DOMAIN config_dict \ C10_WrittenKeys :
                          config_dict'[k] = config_dict[k]
                    /\ \A k \in C10_WrittenKeys :
                          /\ DOMAIN config_dict'[k] = DOMAIN config_dict[k]
                          /\ \A o \in DOMAIN config_dict[k] \ {m} :
                                config_dict'[k][o] = config_dict[k][o]
                    /\ config_dict'.fct_star_global[m] = out.fct_star
                    /\ config_dict'.linelist_names[m].tag = "dict"
                    /\ DOMAIN config_dict'.linelist_names[m].d
                          = DOMAIN out.species_2_lnlst.d \cup
                              (IF config_dict.linelist_names[m] = None THEN {}
                               ELSE DOMAIN config_dict.linelist_names[m].d) ]_vars

C10_Witness ==
    /\ C5_LazyInitDone(last)
    /\ config_dict.fct_star_global[last.args.mode] = last.init_output.fct_star
    /\ last.init_output.fct_star # None
    /\ \E o \in DOMAIN config_dict.fct_star_global : config_dict.fct_star_global[o] = None
    /\ config_dict.linelist_names["low"] # None

====
